---- MODULE Spec2Model ----
(***************************************************************************)
(* A model of scripts/manage.py: the build / package / test driver of the  *)
(* bpy binaries.  The command runner (run_command) is an operator; the     *)
(* three click commands are state machines over one filesystem.            *)
(***************************************************************************)
EXTENDS Integers, Sequences, FiniteSets, TLC

VARIABLES
    call,        \* arguments and environment of one isolated run_command call
    ret,         \* what that call produced
    cwd,         \* working directory of each process (0 is the main process)
    handlers,    \* handlers of the root logger of each process
    now,         \* the wall clock
    invocations, \* command line invocations started so far
    cmd,         \* the running click command and its options
    mainPc,      \* where the main process is
    mainExc,     \* the exception that ended the main process, if any
    idx,         \* position of the package / test loop in the python list
    attempts,    \* runtime versions whose Package / Test Task was started
    staging,     \* staging directory of the running Package Task
    reports,     \* logging calls made by the main process
    mainRan,     \* run_command calls of the Package / Test Tasks so far
    tasks,       \* the Build Tasks submitted to the pool, by task index
    dist,        \* artifact directories that exist under <cwd>/dist
    tmpdirs,     \* temporary directories that exist
    built,       \* pairs whose Build Task returned normally (history)
    packaged     \* pairs whose packaging tool ran and exited 0 (history)

runVars == <<call, ret>>
sessionVars == <<handlers, now, invocations, cmd, mainPc, mainExc, idx, attempts,
                 staging, reports, mainRan, tasks, dist, tmpdirs, built,
                 packaged>>
vars == <<call, ret, cwd, handlers, now, invocations, cmd, mainPc, mainExc, idx,
          attempts, staging, reports, mainRan, tasks, dist, tmpdirs, built,
          packaged>>

(***************************************************************************)
(* Bounds.                                                                 *)
(***************************************************************************)
NumWorkers == 2          \* worker processes of the pool (the host's CPU count)
MaxTasks == 2            \* longest list of --python options
MaxInvocations == 2      \* command line invocations in one session
MaxTime == 1             \* last tick of the wall clock

Procs == 0 .. NumWorkers
MainProc == 0

(***************************************************************************)
(* Values.                                                                 *)
(***************************************************************************)
InvocationDir == "/repo"
Dirs == {InvocationDir, "/repo/dist", "/tmp/work"}
ExitCodes == {0, 1, 42}

NoExc == [type |-> "none", args |-> <<>>]
Exc(type, args) == [type |-> type, args |-> args]

\* class UnexpectedReturnCodeError(ValueError)
UnexpectedReturnCodeError(code) == Exc("UnexpectedReturnCodeError", <<code>>)

(***************************************************************************)
(* What the environment answers to one subprocess.run: whether the         *)
(* executable could be started, its exit code, and whether the captured    *)
(* streams are valid UTF-8.                                                *)
(***************************************************************************)
Processes(codes) ==
    [spawned : BOOLEAN, returncode : codes,
     stderr_utf8 : BOOLEAN, stdout_utf8 : BOOLEAN]

\* A slip: a command that exits with an unexpected code is run a second time
\* before the call gives up.
TryBodyRetrying(proc, expect_code) ==
    IF ~proc.spawned
    THEN [outcome |-> "raise", exc |-> Exc("FileNotFoundError", <<>>),
          logged |-> <<>>, executed |-> FALSE, runs |-> 1]
    ELSE IF ~proc.stderr_utf8
    THEN [outcome |-> "raise", exc |-> Exc("UnicodeDecodeError", <<>>),
          logged |-> <<>>, executed |-> TRUE, runs |-> 1]
    ELSE IF ~proc.stdout_utf8
    THEN [outcome |-> "raise", exc |-> Exc("UnicodeDecodeError", <<>>),
          logged |-> <<"stderr">>, executed |-> TRUE, runs |-> 1]
    ELSE IF proc.returncode # expect_code
    THEN [outcome |-> "raise",
          exc |-> UnexpectedReturnCodeError(proc.returncode),
          logged |-> <<"stderr", "stdout">>, executed |-> TRUE, runs |-> 2]
    ELSE [outcome |-> "return", exc |-> NoExc,
          logged |-> <<"stderr", "stdout">>, executed |-> TRUE, runs |-> 1]

(***************************************************************************)
(* run_command, lines 179-189: the body of the try block, executed with    *)
(* the working directory already changed.  stderr is decoded and logged    *)
(* first, then stdout, then the exit code is compared.  runs counts the    *)
(* calls of subprocess.run.                                                *)
(***************************************************************************)
TryBody(proc, expect_code) ==
    IF ~proc.spawned
    THEN [outcome |-> "raise", exc |-> Exc("FileNotFoundError", <<>>),
          logged |-> <<>>, executed |-> FALSE, runs |-> 1]
    ELSE IF ~proc.stderr_utf8
    THEN [outcome |-> "raise", exc |-> Exc("UnicodeDecodeError", <<>>),
          logged |-> <<>>, executed |-> TRUE, runs |-> 1]
    ELSE IF ~proc.stdout_utf8
    THEN [outcome |-> "raise", exc |-> Exc("UnicodeDecodeError", <<>>),
          logged |-> <<"stderr">>, executed |-> TRUE, runs |-> 1]
    ELSE IF proc.returncode # expect_code
    THEN [outcome |-> "raise",
          exc |-> UnexpectedReturnCodeError(proc.returncode),
          logged |-> <<"stderr", "stdout">>, executed |-> TRUE, runs |-> 1]
    ELSE [outcome |-> "return", exc |-> NoExc,
          logged |-> <<"stderr", "stdout">>, executed |-> TRUE, runs |-> 1]

\* A slip: the directory is restored only when the body did not raise.
RestoreOnSuccessOnly(begin_dir, work_dir, body) ==
    IF body.outcome = "return" THEN begin_dir ELSE work_dir

\* run_command, lines 190-191: finally: os.chdir(begin_dir).
Restore(begin_dir, work_dir, body) == begin_dir

(***************************************************************************)
(* run_command(args, work_dir, expect_code) called in a process whose      *)
(* working directory is dir.  os.chdir(work_dir) is outside the try: when  *)
(* it fails nothing else runs.                                             *)
(***************************************************************************)
RunCommand(dir, work_dir, work_dir_exists, proc, expect_code) ==
    LET begin_dir == dir
    IN  IF ~work_dir_exists
        THEN [outcome |-> "raise", exc |-> Exc("FileNotFoundError", <<>>),
              logged |-> <<>>, executed |-> FALSE, runs |-> 0,
              ran_in |-> "", cwd |-> dir]
        ELSE LET body == TryBody(proc, expect_code)
             IN  [outcome |-> body.outcome, exc |-> body.exc,
                  logged |-> body.logged, executed |-> body.executed,
                  runs |-> body.runs,
                  ran_in |-> IF proc.spawned THEN work_dir ELSE "",
                  cwd |-> Restore(begin_dir, work_dir, body)]

(***************************************************************************)
(* One isolated call of run_command: Init draws the arguments and the      *)
(* environment, Invoke applies the function in the main process.           *)
(***************************************************************************)
NoRet == [outcome |-> "pending"]
NoCall == [at |-> ""]

Calls ==
    [at : Dirs, work_dir : Dirs, work_dir_exists : BOOLEAN,
     proc : Processes(ExitCodes), expect_code : ExitCodes]

NoCmd == [name |-> "none", blender |-> "", python |-> <<>>, system |-> ""]

SessionIdle ==
    /\ handlers = [p \in Procs |-> <<>>]
    /\ now = 0
    /\ invocations = 0
    /\ cmd = NoCmd
    /\ mainPc = "idle"
    /\ mainExc = NoExc
    /\ idx = 1
    /\ attempts = <<>>
    /\ staging = ""
    /\ reports = <<>>
    /\ mainRan = <<>>
    /\ tasks = <<>>
    /\ dist = {}
    /\ tmpdirs = {}
    /\ built = {}
    /\ packaged = {}

InitRun ==
    /\ call \in Calls
    /\ ret = NoRet
    /\ cwd = [p \in Procs |-> call.at]
    /\ SessionIdle

Invoke ==
    /\ ret = NoRet
    /\ ret' = RunCommand(cwd[MainProc], call.work_dir, call.work_dir_exists,
                         call.proc, call.expect_code)
    /\ cwd' = [cwd EXCEPT ![MainProc] = ret'.cwd]
    /\ UNCHANGED call
    /\ UNCHANGED sessionVars

NextRun == Invoke

SpecRun == InitRun /\ [][NextRun]_vars

(***************************************************************************)
(* The command line: versions as click parses them (packaging's Version,   *)
(* written as str() prints it) and the platform tag.                       *)
(***************************************************************************)
Blenders == {"3.4", "3.5"}
Pythons == {"3.10", "3.11"}
Systems == {"manylinux1_x86_64"}
PythonLists == UNION {[1 .. n -> Pythons] : n \in 1 .. MaxTasks}

\* What a step of a task is answered by its external command.
StepProcesses ==
    {p \in Processes({0, 1}) : p.spawned /\ p.stderr_utf8}

\* create_process_name
create_process_name(blender, python) ==
    "blender-git-" \o blender \o "-" \o python

\* A slip: the runtime version is left out of the name.
DestPathWithoutPython(invocation_directory, blender, python_version) ==
    invocation_directory \o "/dist/" \o "bpy_" \o blender

\* _build, lines 128-133: build_destination / f"bpy_{blender}_{python_version}".
DestPath(invocation_directory, blender, python_version) ==
    invocation_directory \o "/dist/" \o "bpy_" \o blender \o "_" \o python_version

\* A slip: the package reads the artifact of the unversioned layout.
ArtifactPathUnversioned(dir, blender, python_version) ==
    dir \o "/dist/" \o "bpy"

\* _package, line 241: Path.cwd() / "dist" / f"bpy_{blender}_{python_version}".
ArtifactPath(dir, blender, python_version) ==
    dir \o "/dist/" \o "bpy_" \o blender \o "_" \o python_version

\* datetime.isoformat() of a clock tick.
IsoFormat(t) == "2023-01-01T00:00:00.00000" \o ToString(t)

\* configure_logger, lines 149-154.
LogFilePath(dir, t, blender, python_version) ==
    dir \o "/log/build/" \o IsoFormat(t) \o "_" \o blender \o "_"
        \o python_version \o ".log"

\* A slip: the handlers of earlier calls are kept.
configure_loggerNoClear(old, dir, t, blender, python_version) ==
    LET file_handler == [kind |-> "file", level |-> "DEBUG",
                         path |-> LogFilePath(dir, t, blender, python_version)]
        stream_handler == [kind |-> "stream", level |-> "WARNING", path |-> ""]
    IN  Append(Append(old, file_handler), stream_handler)

\* configure_logger, lines 143-161: the handlers of the root logger after
\* the call, whatever they were before.
configure_logger(old, dir, t, blender, python_version) ==
    LET cleared == <<>>
        file_handler == [kind |-> "file", level |-> "DEBUG",
                         path |-> LogFilePath(dir, t, blender, python_version)]
        stream_handler == [kind |-> "stream", level |-> "WARNING", path |-> ""]
    IN  Append(Append(cleared, file_handler), stream_handler)

\* tempfile.mkdtemp: a directory that does not exist yet, its name ending in
\* the suffix.  The random part is the first one that is free.
TempName(k, suffix) == "/tmp/tmp" \o ToString(k) \o suffix
TemporaryDirectory(existing, suffix) ==
    LET k == CHOOSE k \in 1 .. Cardinality(existing) + 1 :
                 /\ TempName(k, suffix) \notin existing
                 /\ \A j \in 1 .. k - 1 : TempName(j, suffix) \in existing
    IN  TempName(k, suffix)

\* The clock read by a call: the tick it was at, or a later one.
Ticks == {t \in {now, now + 1} : t <= MaxTime}

(***************************************************************************)
(* The build command.                                                      *)
(***************************************************************************)
NewTask(python_version) ==
    [python |-> python_version, pc |-> "pending", future |-> "pending",
     worker |-> MainProc, invocation_directory |-> "", work_path |-> "",
     log_file |-> "", exc |-> NoExc, ran |-> <<>>, dest |-> "",
     elapsed_logged |-> FALSE]

Busy(w) ==
    \E t \in 1 .. Len(tasks) :
        /\ tasks[t].worker = w
        /\ tasks[t].pc # "pending"
        /\ tasks[t].future = "pending"

CanStart == mainPc = "idle" /\ invocations < MaxInvocations

\* A new process of the command line: every process starts in the invocation
\* directory with an unconfigured root logger.
FreshProcesses ==
    /\ cwd' = [p \in Procs |-> InvocationDir]
    /\ handlers' = [p \in Procs |-> <<>>]
    /\ invocations' = invocations + 1
    /\ mainExc' = NoExc
    /\ idx' = 1
    /\ attempts' = <<>>
    /\ reports' = <<>>
    /\ mainRan' = <<>>
    /\ staging' = ""

\* build, lines 50-57: every runtime version is submitted to the pool.
BuildSubmit ==
    /\ CanStart
    /\ \E b \in Blenders, pl \in PythonLists :
        /\ cmd' = [name |-> "build", blender |-> b, python |-> pl, system |-> ""]
        /\ tasks' = [i \in 1 .. Len(pl) |-> NewTask(pl[i])]
    /\ mainPc' = "collect"
    /\ FreshProcesses
    /\ UNCHANGED <<call, ret, now, dist, tmpdirs, built, packaged>>

\* _build, lines 79-88, run by an idle worker on the oldest pending task.
BuildBegin(w, t) ==
    /\ cmd.name = "build"
    /\ w # MainProc
    /\ ~Busy(w)
    /\ tasks[t].pc = "pending"
    /\ \A u \in 1 .. t - 1 : tasks[u].pc # "pending"
    /\ \E tick \in Ticks :
        LET invocation_directory == cwd[w]
            process_name == create_process_name(cmd.blender, tasks[t].python)
            work_path == TemporaryDirectory(tmpdirs, process_name)
        IN  /\ now' = tick
            /\ handlers' = [handlers EXCEPT ![w] =
                   configure_logger(@, cwd[w], tick, cmd.blender, tasks[t].python)]
            /\ tmpdirs' = tmpdirs \cup {work_path}
            /\ tasks' = [tasks EXCEPT ![t] =
                   [@ EXCEPT !.pc = "clone", !.worker = w,
                             !.invocation_directory = invocation_directory,
                             !.work_path = work_path,
                             !.log_file = LogFilePath(cwd[w], tick, cmd.blender,
                                                      tasks[t].python)]]
    /\ UNCHANGED <<call, ret, cwd, invocations, cmd, mainPc, mainExc, idx,
                   attempts, staging, reports, mainRan, dist, built, packaged>>

\* A slip: the outcome of the call is ignored and the next step runs anyway.
BuildRunUnchecked(t, pc, work_dir, next_pc) ==
    /\ cmd.name = "build"
    /\ tasks[t].pc = pc
    /\ \E proc \in StepProcesses :
        LET w == tasks[t].worker
            r == RunCommand(cwd[w], work_dir, TRUE, proc, 0)
            done == [step |-> pc, ran_in |-> r.ran_in,
                     ok |-> r.outcome = "return", runs |-> r.runs]
        IN  /\ cwd' = [cwd EXCEPT ![w] = r.cwd]
            /\ tasks' = [tasks EXCEPT ![t] =
                   [@ EXCEPT !.pc = next_pc, !.ran = Append(@, done)]]
    /\ UNCHANGED <<call, ret, handlers, now, invocations, cmd, mainPc, mainExc,
                   idx, attempts, staging, reports, mainRan, dist, tmpdirs,
                   built,
                   packaged>>

\* One run_command call of _build: the step at pc, run in work_dir; the next
\* statement is reached only when the call returns.
BuildRun(t, pc, work_dir, next_pc) ==
    /\ cmd.name = "build"
    /\ tasks[t].pc = pc
    /\ \E proc \in StepProcesses :
        LET w == tasks[t].worker
            r == RunCommand(cwd[w], work_dir, TRUE, proc, 0)
            done == [step |-> pc, ran_in |-> r.ran_in,
                     ok |-> r.outcome = "return", runs |-> r.runs]
        IN  /\ cwd' = [cwd EXCEPT ![w] = r.cwd]
            /\ tasks' = [tasks EXCEPT ![t] =
                   IF r.outcome = "return"
                   THEN [@ EXCEPT !.pc = next_pc, !.ran = Append(@, done)]
                   ELSE [@ EXCEPT !.pc = "raised", !.exc = r.exc,
                                  !.ran = Append(@, done)]]
    /\ UNCHANGED <<call, ret, handlers, now, invocations, cmd, mainPc, mainExc,
                   idx, attempts, staging, reports, mainRan, dist, tmpdirs,
                   built,
                   packaged>>

\* _build, lines 90-93
BuildClone(t) ==
    BuildRun(t, "clone", tasks[t].work_path, "fetch")
\* _build, lines 97-110
BuildFetch(t) ==
    BuildRun(t, "fetch", tasks[t].work_path \o "/lib", "checkout")
\* _build, line 117
BuildCheckout(t) ==
    BuildRun(t, "checkout", tasks[t].work_path \o "/blender", "update")
\* _build, line 118
BuildUpdate(t) ==
    BuildRun(t, "update", tasks[t].work_path \o "/blender", "configure")
\* _build, lines 120-123
BuildConfigure(t) ==
    BuildRun(t, "configure", tasks[t].work_path \o "/build_linux_bpy", "compile")
\* _build, line 125
BuildCompile(t) ==
    BuildRun(t, "compile", tasks[t].work_path \o "/blender", "copy")

\* shutil.copytree(src, dst): src must exist and dst must not.
copytree(src_exists, dst, existing) ==
    IF ~src_exists THEN Exc("FileNotFoundError", <<>>)
    ELSE IF dst \in existing THEN Exc("FileExistsError", <<>>)
    ELSE NoExc

\* _build, line 87: the TemporaryDirectory is held by a local of _build and
\* never cleaned up explicitly.  When _build returns its frame is dropped and
\* the finalizer of the object removes the directory.
FrameDropped(existing, work_path) == existing \ {work_path}

\* _build, lines 127-138: copy the artifact, log the elapsed time, return.
BuildCopy(t) ==
    /\ cmd.name = "build"
    /\ tasks[t].pc = "copy"
    /\ \E output_exists \in BOOLEAN :
        LET dst == DestPath(tasks[t].invocation_directory, cmd.blender,
                            tasks[t].python)
            e == copytree(output_exists, dst, dist)
            done == [step |-> "copy", ran_in |-> "", ok |-> e = NoExc,
                     runs |-> 0]
        IN  IF e = NoExc
            THEN /\ dist' = dist \cup {dst}
                 /\ tasks' = [tasks EXCEPT ![t] =
                        [@ EXCEPT !.pc = "returned", !.dest = dst,
                                  !.elapsed_logged = TRUE,
                                  !.ran = Append(@, done)]]
                 /\ tmpdirs' = FrameDropped(tmpdirs, tasks[t].work_path)
                 /\ built' = built \cup {<<cmd.blender, tasks[t].python>>}
            ELSE /\ tasks' = [tasks EXCEPT ![t] =
                        [@ EXCEPT !.pc = "raised", !.exc = e,
                                  !.ran = Append(@, done)]]
                 /\ UNCHANGED <<dist, tmpdirs, built>>
    /\ UNCHANGED <<call, ret, cwd, handlers, now, invocations, cmd, mainPc,
                   mainExc, idx, attempts, staging, reports, mainRan, packaged>>

(***************************************************************************)
(* build, line 56: the pool's worker hands the outcome of the call to the  *)
(* future.  An exception keeps the frame of _build, and with it the        *)
(* TemporaryDirectory, alive through its traceback until the worker has    *)
(* wrapped the exception and dropped the traceback.                        *)
(***************************************************************************)
WorkerSendback(t) ==
    /\ cmd.name = "build"
    /\ tasks[t].pc \in {"returned", "raised"}
    /\ tasks[t].future = "pending"
    /\ tasks' = [tasks EXCEPT ![t].future =
                    IF tasks[t].pc = "returned" THEN "result" ELSE "exception"]
    /\ tmpdirs' = FrameDropped(tmpdirs, tasks[t].work_path)
    /\ UNCHANGED <<call, ret, cwd, handlers, now, invocations, cmd, mainPc,
                   mainExc, idx, attempts, staging, reports, mainRan, dist,
                   built,
                   packaged>>

Report(i, python_version, level, outcome, code) ==
    [index |-> i, blender |-> cmd.blender, python |-> python_version,
     level |-> level, outcome |-> outcome, code |-> code]

\* A slip: task.result() is called without a handler, so the exception of a
\* failed task ends the command.
BuildCollectNoHandler ==
    /\ cmd.name = "build"
    /\ mainPc = "collect"
    /\ LET n == Len(reports) + 1
       IN  /\ n <= Len(tasks)
           /\ tasks[n].future # "pending"
           /\ IF tasks[n].future = "exception"
              THEN /\ mainExc' = tasks[n].exc
                   /\ mainPc' = "idle"
                   /\ UNCHANGED reports
              ELSE /\ reports' = Append(reports,
                          Report(n - 1, cmd.python[n], "INFO", "succeeded", 0))
                   /\ UNCHANGED <<mainPc, mainExc>>
    /\ UNCHANGED <<call, ret, cwd, handlers, now, invocations, cmd, idx,
                   attempts, staging, mainRan, tasks, dist, tmpdirs, built,
                   packaged>>

\* build, lines 59-75: task.result() of the next future, in submission order.
BuildCollect ==
    /\ cmd.name = "build"
    /\ mainPc = "collect"
    /\ LET n == Len(reports) + 1
       IN  /\ n <= Len(tasks)
           /\ tasks[n].future # "pending"
           /\ reports' = Append(reports,
                  IF tasks[n].future = "exception"
                  THEN Report(n - 1, cmd.python[n], "ERROR", "failed", 0)
                  ELSE Report(n - 1, cmd.python[n], "INFO", "succeeded", 0))
    /\ UNCHANGED <<call, ret, cwd, handlers, now, invocations, cmd, mainPc,
                   mainExc, idx, attempts, staging, mainRan, tasks, dist,
                   tmpdirs, built, packaged>>

\* build, line 52: the with block of the executor ends.
BuildExit ==
    /\ cmd.name = "build"
    /\ mainPc = "collect"
    /\ Len(reports) = Len(tasks)
    /\ mainPc' = "idle"
    /\ UNCHANGED <<call, ret, cwd, handlers, now, invocations, cmd, mainExc,
                   idx, attempts, staging, reports, mainRan, tasks, dist,
                   tmpdirs,
                   built, packaged>>

(***************************************************************************)
(* The package command.                                                    *)
(***************************************************************************)
\* One run_command call of the main process, made by the task-th task of the
\* loop: what the command exited with and how the call ended.
Ran(task, r, proc) ==
    [task |-> task, returncode |-> proc.returncode,
     ok |-> r.outcome = "return", exc |-> r.exc, runs |-> r.runs]

PackageStart ==
    /\ CanStart
    /\ \E b \in Blenders, pl \in PythonLists, s \in Systems :
        cmd' = [name |-> "package", blender |-> b, python |-> pl, system |-> s]
    /\ mainPc' = "package"
    /\ tasks' = <<>>
    /\ FreshProcesses
    /\ UNCHANGED <<call, ret, now, dist, tmpdirs, built, packaged>>

\* package, line 221, and _package, lines 226-236: the logger is configured,
\* the descriptor is rendered from the template shipped beside the script,
\* and the staging directory is created.
PackageBegin ==
    /\ mainPc = "package"
    /\ idx <= Len(cmd.python)
    /\ \E tick \in Ticks :
        /\ now' = tick
        /\ handlers' = [handlers EXCEPT ![MainProc] =
               configure_logger(@, cwd[MainProc], tick, cmd.blender,
                                cmd.python[idx])]
    /\ attempts' = Append(attempts, cmd.python[idx])
    /\ staging' = TemporaryDirectory(tmpdirs, "")
    /\ tmpdirs' = tmpdirs \cup {staging'}
    /\ mainPc' = "stage"
    /\ UNCHANGED <<call, ret, cwd, invocations, cmd, mainExc, idx, reports,
                   mainRan, tasks, dist, built, packaged>>

\* A slip: the staging directory is not a context manager's, so an exception
\* leaves it behind.
PackageRaiseLeaking(e) ==
    /\ mainExc' = e
    /\ staging' = ""
    /\ mainPc' = "idle"
    /\ UNCHANGED <<tmpdirs, idx, packaged>>

\* The exception leaves the with block of _package, which removes the staging
\* directory, then _package and the loop of package (lines 221-222), which
\* has no handler: the command ends.
PackageRaise(e) ==
    /\ mainExc' = e
    /\ tmpdirs' = tmpdirs \ {staging}
    /\ staging' = ""
    /\ mainPc' = "idle"
    /\ UNCHANGED <<idx, packaged>>

\* _package, lines 238-246: readme, license and artifact are copied.
PackageStage ==
    /\ mainPc = "stage"
    /\ \E files_exist \in BOOLEAN :
        LET src == ArtifactPath(cwd[MainProc], cmd.blender, cmd.python[idx])
            e == IF ~files_exist THEN Exc("FileNotFoundError", <<>>)
                 ELSE copytree(src \in dist, staging \o "/bpy", {})
        IN  IF e = NoExc
            THEN /\ mainPc' = "wheel"
                 /\ UNCHANGED <<mainExc, tmpdirs, staging, idx, packaged>>
            ELSE PackageRaise(e)
    /\ UNCHANGED <<call, ret, cwd, handlers, now, invocations, cmd, attempts,
                   reports, mainRan, tasks, dist, built>>

\* _package, lines 248-265: the packaging tool, then the with block ends.
PackageWheel ==
    /\ mainPc = "wheel"
    /\ \E proc \in StepProcesses :
        LET r == RunCommand(cwd[MainProc], staging, TRUE, proc, 0)
        IN  /\ cwd' = [cwd EXCEPT ![MainProc] = r.cwd]
            /\ mainRan' = Append(mainRan, Ran(Len(attempts), r, proc))
            /\ IF r.outcome = "return"
               THEN /\ packaged' = packaged \cup {<<cmd.blender, cmd.python[idx]>>}
                    /\ tmpdirs' = tmpdirs \ {staging}
                    /\ staging' = ""
                    /\ idx' = idx + 1
                    /\ mainPc' = "package"
                    /\ UNCHANGED mainExc
               ELSE PackageRaise(r.exc)
    /\ UNCHANGED <<call, ret, handlers, now, invocations, cmd, attempts,
                   reports, tasks, dist, built>>

\* package, line 221: the list is exhausted.
PackageExit ==
    /\ mainPc = "package"
    /\ idx > Len(cmd.python)
    /\ mainPc' = "idle"
    /\ UNCHANGED <<call, ret, cwd, handlers, now, invocations, cmd, mainExc,
                   idx, attempts, staging, reports, mainRan, tasks, dist,
                   tmpdirs,
                   built, packaged>>

(***************************************************************************)
(* The test command.                                                       *)
(***************************************************************************)
TestProcesses ==
    {p \in Processes({0, 42}) : p.spawned /\ p.stderr_utf8}

\* A slip: the code logged is the expected one.
LoggedCodeExpected(e) == 0

\* _test, line 320: e.args[0], the first argument of the exception.
LoggedCode(e) == e.args[1]

TestStart ==
    /\ CanStart
    /\ \E b \in Blenders, pl \in PythonLists, s \in Systems :
        cmd' = [name |-> "test", blender |-> b, python |-> pl, system |-> s]
    /\ mainPc' = "test"
    /\ tasks' = <<>>
    /\ FreshProcesses
    /\ UNCHANGED <<call, ret, now, dist, tmpdirs, built, packaged>>

\* test, line 293, and _test, lines 298-328.
TestTask ==
    /\ mainPc = "test"
    /\ idx <= Len(cmd.python)
    /\ \E tick \in Ticks :
        /\ now' = tick
        /\ handlers' = [handlers EXCEPT ![MainProc] =
               configure_logger(@, cwd[MainProc], tick, cmd.blender,
                                cmd.python[idx])]
    /\ attempts' = Append(attempts, cmd.python[idx])
    /\ \E proc \in TestProcesses :
        LET r == RunCommand(cwd[MainProc], cwd[MainProc], TRUE, proc, 0)
        IN  /\ cwd' = [cwd EXCEPT ![MainProc] = r.cwd]
            /\ mainRan' = Append(mainRan, Ran(Len(attempts) + 1, r, proc))
            /\ IF r.exc.type = "UnexpectedReturnCodeError"
               THEN /\ reports' = Append(reports,
                           Report(idx - 1, cmd.python[idx], "ERROR", "failed",
                                  LoggedCode(r.exc)))
                    /\ idx' = idx + 1
                    /\ UNCHANGED <<mainPc, mainExc>>
               ELSE IF r.outcome = "return"
               THEN /\ reports' = Append(reports,
                           Report(idx - 1, cmd.python[idx], "WARNING",
                                  "succeeded", 0))
                    /\ idx' = idx + 1
                    /\ UNCHANGED <<mainPc, mainExc>>
               ELSE /\ mainExc' = r.exc
                    /\ mainPc' = "idle"
                    /\ UNCHANGED <<reports, idx>>
    /\ UNCHANGED <<call, ret, invocations, cmd, staging, tasks, dist, tmpdirs,
                   built, packaged>>

\* test, line 293: the list is exhausted.
TestExit ==
    /\ mainPc = "test"
    /\ idx > Len(cmd.python)
    /\ mainPc' = "idle"
    /\ UNCHANGED <<call, ret, cwd, handlers, now, invocations, cmd, mainExc,
                   idx, attempts, staging, reports, mainRan, tasks, dist,
                   tmpdirs,
                   built, packaged>>

(***************************************************************************)
(* A session: command line invocations one after the other, in the same    *)
(* directory, over the same filesystem.                                    *)
(***************************************************************************)
Init ==
    /\ call = NoCall
    /\ ret = NoRet
    /\ cwd = [p \in Procs |-> InvocationDir]
    /\ SessionIdle

Next ==
    \/ BuildSubmit
    \/ \E w \in Procs, t \in 1 .. Len(tasks) : BuildBegin(w, t)
    \/ \E t \in 1 .. Len(tasks) : BuildClone(t)
    \/ \E t \in 1 .. Len(tasks) : BuildFetch(t)
    \/ \E t \in 1 .. Len(tasks) : BuildCheckout(t)
    \/ \E t \in 1 .. Len(tasks) : BuildUpdate(t)
    \/ \E t \in 1 .. Len(tasks) : BuildConfigure(t)
    \/ \E t \in 1 .. Len(tasks) : BuildCompile(t)
    \/ \E t \in 1 .. Len(tasks) : BuildCopy(t)
    \/ \E t \in 1 .. Len(tasks) : WorkerSendback(t)
    \/ BuildCollect
    \/ BuildExit
    \/ PackageStart
    \/ PackageBegin
    \/ PackageStage
    \/ PackageWheel
    \/ PackageExit
    \/ TestStart
    \/ TestTask
    \/ TestExit

Spec == Init /\ [][Next]_vars

(***************************************************************************)
(* C1: when run_command returns or raises, the working directory of the    *)
(* process is the one it had when the call was made, whatever the exit     *)
(* code, the expected code and the way the call ended.                     *)
(***************************************************************************)
C1_WorkingDirectoryRestored ==
    ret # NoRet => cwd[MainProc] = call.at

\* The command ran in another directory and then failed.
C1_Witness ==
    /\ ret # NoRet
    /\ ret.outcome = "raise"
    /\ ret.ran_in # ""
    /\ ret.ran_in # call.at
    /\ cwd[MainProc] = call.at

(***************************************************************************)
(* C2: for an executed command, UnexpectedReturnCodeError is raised        *)
(* exactly when the exit code differs from the expected code, it carries   *)
(* the exit code, and with equal codes the call returns.                   *)
(***************************************************************************)
C2_RaisesIffCodeDiffers ==
    (ret # NoRet /\ ret.executed) =>
        /\ (ret.exc.type = "UnexpectedReturnCodeError")
               <=> (call.proc.returncode # call.expect_code)
        /\ (ret.exc.type = "UnexpectedReturnCodeError")
               => (ret.exc.args = <<call.proc.returncode>>)
        /\ (call.proc.returncode = call.expect_code)
               => (ret.outcome = "return")

(***************************************************************************)
(* Shorthands of the properties.                                           *)
(***************************************************************************)
StepOrder ==
    <<"clone", "fetch", "checkout", "update", "configure", "compile", "copy">>

Building == cmd.name = "build"
TaskIds == 1 .. Len(tasks)
Started(t) == tasks[t].pc # "pending"
Running(t) == Started(t) /\ tasks[t].future = "pending"
Finished(t) == tasks[t].pc \in {"returned", "raised"}

\* Any step of task t, and its pick-up by a worker.
TaskStep(t) ==
    \/ BuildClone(t) \/ BuildFetch(t) \/ BuildCheckout(t) \/ BuildUpdate(t)
    \/ BuildConfigure(t) \/ BuildCompile(t) \/ BuildCopy(t)
    \/ WorkerSendback(t)
TaskPickup(t) == \E w \in Procs : BuildBegin(w, t)

\* The directories of a WorkArea that the steps of its task run in.
WorkAreaDirs(work_path) ==
    {work_path, work_path \o "/lib", work_path \o "/blender",
     work_path \o "/build_linux_bpy"}

(***************************************************************************)
(* C3: the build command reports the futures in submission order, one      *)
(* report per task index, carrying the version submitted at that index and *)
(* the task's own outcome; it ends only when every task has finished and   *)
(* has been reported.  No task is cancelled or held up by a failed         *)
(* sibling: a started task can always take its next step, and the oldest   *)
(* pending task is picked up as soon as a worker is idle.                  *)
(***************************************************************************)
C3_EveryTaskReportedOnce ==
    Building =>
        /\ Len(reports) <= Len(tasks)
        /\ Len(tasks) = Len(cmd.python)
        /\ \A n \in 1 .. Len(reports) :
            /\ reports[n].index = n - 1
            /\ reports[n].python = cmd.python[n]
            /\ reports[n].python = tasks[n].python
            /\ reports[n].blender = cmd.blender
            /\ tasks[n].future # "pending"
            /\ (reports[n].outcome = "failed") <=> (tasks[n].pc = "raised")
            /\ (reports[n].outcome = "succeeded") <=> (tasks[n].pc = "returned")
        /\ (mainPc = "idle") =>
            /\ Len(reports) = Len(tasks)
            /\ mainExc = NoExc
            /\ \A t \in TaskIds : Finished(t) /\ tasks[t].future # "pending"
        /\ \A t \in TaskIds :
            /\ Running(t) => ENABLED TaskStep(t)
            /\ (/\ ~Started(t)
                /\ \A u \in 1 .. t - 1 : Started(u)
                /\ \E w \in Procs \ {MainProc} : ~Busy(w)) => ENABLED TaskPickup(t)

\* The command has ended; the first task failed, the second one succeeded.
C3_Witness ==
    /\ Building
    /\ mainPc = "idle"
    /\ Len(tasks) = 2
    /\ tasks[1].pc = "raised"
    /\ tasks[2].pc = "returned"
    /\ reports[1].outcome = "failed"
    /\ reports[2].outcome = "succeeded"

(***************************************************************************)
(* C4: the steps of a Build Task run in the order clone, fetch, checkout,  *)
(* update, configure, compile, copy; every step but the last one run has   *)
(* succeeded; a task has raised exactly when the last step it ran failed,  *)
(* the future then holds the exception, and a task whose command runner    *)
(* failed has copied nothing to its destination.                           *)
(***************************************************************************)
C4_StepsInOrderUntilFirstFailure ==
    Building =>
        \A t \in TaskIds :
            LET r == tasks[t].ran
                n == Len(r)
            IN  /\ n <= Len(StepOrder)
                /\ \A k \in 1 .. n : r[k].step = StepOrder[k]
                /\ \A k \in 1 .. n - 1 : r[k].ok
                /\ (tasks[t].pc = "raised") <=> (n > 0 /\ ~r[n].ok)
                /\ (tasks[t].pc = "raised") <=> (tasks[t].exc # NoExc)
                /\ (tasks[t].pc = "raised" /\ tasks[t].future # "pending")
                       => tasks[t].future = "exception"
                /\ (tasks[t].pc \in {"clone", "fetch", "checkout", "update",
                                     "configure", "compile", "copy"})
                       => (n < Len(StepOrder) /\ tasks[t].pc = StepOrder[n + 1])
                /\ (tasks[t].pc = "raised") => tasks[t].dest = ""
                /\ (tasks[t].dest # "") =>
                       (n = Len(StepOrder) /\ tasks[t].pc = "returned")
                /\ (tasks[t].pc = "returned") =>
                       (tasks[t].dest \in dist /\ tasks[t].dest # "")

\* The tag checkout failed: three steps were run, nothing was copied.
C4_Witness ==
    /\ Building
    /\ \E t \in TaskIds :
        /\ tasks[t].pc = "raised"
        /\ Len(tasks[t].ran) = 3
        /\ tasks[t].exc.type = "UnexpectedReturnCodeError"
        /\ tasks[t].future = "exception"
        /\ DestPath(InvocationDir, cmd.blender, tasks[t].python) \notin dist

(***************************************************************************)
(* C5: once _build has returned or raised, the WorkArea it created does    *)
(* not exist.                                                              *)
(***************************************************************************)
C5_WorkAreaRemoved ==
    Building =>
        \A t \in TaskIds : Finished(t) => tasks[t].work_path \notin tmpdirs

(***************************************************************************)
(* C6: no exception leaves _test, so the test command ends only after the  *)
(* Test Task has run for every runtime version given, in the given order.  *)
(***************************************************************************)
C6_TestNeverPropagates ==
    cmd.name = "test" =>
        /\ mainExc = NoExc
        /\ (mainPc = "idle") => attempts = cmd.python

(***************************************************************************)
(* C7: the package command attempts the Package Task once for every        *)
(* runtime version given, also for those that follow a failed one.         *)
(***************************************************************************)
C7_PackageAttemptsEveryVersion ==
    (cmd.name = "package" /\ mainPc = "idle") => attempts = cmd.python

(***************************************************************************)
(* C8: two Build Tasks for distinct runtime versions have distinct         *)
(* WorkAreas, log files and destinations; each runs its commands only in   *)
(* directories of its own WorkArea and writes only its own destination;    *)
(* while both run they run in different processes, whose working           *)
(* directory between steps is the invocation directory and whose file      *)
(* sink is the task's own log file.                                        *)
(***************************************************************************)
C8_DistinctTasksShareNothing ==
    Building =>
        \A t \in TaskIds :
            /\ Started(t) =>
                /\ tasks[t].work_path # ""
                /\ \A k \in 1 .. Len(tasks[t].ran) :
                       tasks[t].ran[k].ran_in \in
                           WorkAreaDirs(tasks[t].work_path) \cup {""}
                /\ tasks[t].dest \in
                       {"", DestPath(InvocationDir, cmd.blender, tasks[t].python)}
            /\ Running(t) =>
                /\ tasks[t].worker # MainProc
                /\ cwd[tasks[t].worker] = InvocationDir
                /\ handlers[tasks[t].worker][1].path = tasks[t].log_file
            /\ \A u \in TaskIds :
                (u # t /\ tasks[t].python # tasks[u].python
                    /\ Started(t) /\ Started(u)) =>
                    /\ tasks[t].work_path # tasks[u].work_path
                    /\ WorkAreaDirs(tasks[t].work_path)
                           \cap WorkAreaDirs(tasks[u].work_path) = {}
                    /\ tasks[t].log_file # tasks[u].log_file
                    /\ DestPath(tasks[t].invocation_directory, cmd.blender,
                                tasks[t].python)
                           # DestPath(tasks[u].invocation_directory, cmd.blender,
                                      tasks[u].python)
                    /\ (Running(t) /\ Running(u)) =>
                           tasks[t].worker # tasks[u].worker

\* Two tasks for distinct versions ran at the same time and both returned.
C8_Witness ==
    /\ Building
    /\ Len(tasks) = 2
    /\ tasks[1].python # tasks[2].python
    /\ tasks[1].pc = "returned" /\ tasks[2].pc = "returned"
    /\ tasks[1].worker # tasks[2].worker
    /\ tasks[1].dest # tasks[2].dest
    /\ {tasks[1].dest, tasks[2].dest} \subseteq dist

(***************************************************************************)
(* C9: no two Build Tasks submitted by one build command have the same     *)
(* destination directory.                                                  *)
(***************************************************************************)
C9_NoSharedDestination ==
    Building =>
        \A t, u \in TaskIds :
            t # u => DestPath(InvocationDir, cmd.blender, tasks[t].python)
                         # DestPath(InvocationDir, cmd.blender, tasks[u].python)

(***************************************************************************)
(* C10: the path the Package Task copies the artifact of a pair from is    *)
(* the path the Build Task of that pair wrote; the packaging tool is       *)
(* reached only for a pair whose Build Task has returned normally; a       *)
(* Package Task whose artifact is missing ends with FileNotFoundError and  *)
(* the packaging tool has not run for it.                                  *)
(***************************************************************************)
C10_PackageReadsWhatBuildWrote ==
    /\ \A pair \in built : ArtifactPath(InvocationDir, pair[1], pair[2]) \in dist
    /\ packaged \subseteq built
    /\ (cmd.name = "package" /\ attempts # <<>>) =>
        LET pair == <<cmd.blender, attempts[Len(attempts)]>>
        IN  /\ (mainPc = "wheel") => pair \in built
            /\ (pair \notin built) =>
                /\ mainPc \in {"stage", "idle"}
                /\ pair \notin packaged
                /\ (mainPc = "idle") => mainExc.type = "FileNotFoundError"

\* The packaging tool is about to run for a pair built by an earlier command.
C10_Witness ==
    /\ cmd.name = "package"
    /\ mainPc = "wheel"
    /\ <<cmd.blender, cmd.python[idx]>> \in built
    /\ ArtifactPath(cwd[MainProc], cmd.blender, cmd.python[idx]) \in dist

(***************************************************************************)
(* C11: the destination of a pair is the same path in every run, and a     *)
(* build command that is run again for a pair built before, all its steps  *)
(* succeeding and the compiled output being there, returns with the        *)
(* artifact at that path.                                                  *)
(***************************************************************************)
C11_RerunProducesSamePath ==
    (Building /\ Len(tasks) = 1) =>
        LET t == tasks[1]
            path == DestPath(InvocationDir, cmd.blender, t.python)
        IN  /\ t.dest \in {"", path}
            /\ (/\ Len(t.ran) = Len(StepOrder)
                /\ \A k \in 1 .. Len(StepOrder) - 1 : t.ran[k].ok
                /\ t.exc.type # "FileNotFoundError") =>
                   /\ t.pc = "returned"
                   /\ t.dest = path
                   /\ path \in dist

(***************************************************************************)
(* C12: nothing is retried.  Every run_command call starts its command     *)
(* once.  A Build Task runs each of its steps at most once and nothing     *)
(* after a failed one: it has then raised, and the build command reports   *)
(* its failure at most once.  A Package Task makes at most one             *)
(* run_command call, and when that call fails the package command ends     *)
(* with the exception of the call, no further task being started.          *)
(***************************************************************************)
C12_NoRetry ==
    /\ \A t \in TaskIds :
        LET r == tasks[t].ran
        IN  /\ \A k \in 1 .. Len(r) :
                /\ r[k].runs = IF r[k].step = "copy" THEN 0 ELSE 1
                /\ \A j \in 1 .. Len(r) : r[j].step = r[k].step => j = k
                /\ ~r[k].ok =>
                    /\ k = Len(r)
                    /\ tasks[t].pc = "raised"
                    /\ tasks[t].exc # NoExc
            /\ Cardinality({n \in 1 .. Len(reports) :
                               reports[n].index = t - 1}) <= 1
    /\ \A k \in 1 .. Len(mainRan) :
        /\ mainRan[k].runs = 1
        /\ \A j \in 1 .. Len(mainRan) :
               mainRan[j].task = mainRan[k].task => j = k
        /\ mainRan[k].task <= Len(attempts)
        /\ (cmd.name = "package" /\ ~mainRan[k].ok) =>
            /\ k = Len(mainRan)
            /\ mainRan[k].task = Len(attempts)
            /\ mainPc = "idle"
            /\ mainExc = mainRan[k].exc

\* The packaging tool succeeded for the first version and failed for the
\* second one: two calls were made, and the command has ended.
C12_Witness ==
    /\ cmd.name = "package"
    /\ Len(mainRan) = 2
    /\ mainRan[1].ok
    /\ ~mainRan[2].ok
    /\ mainRan[2].runs = 1
    /\ mainPc = "idle"
    /\ mainExc.type = "UnexpectedReturnCodeError"

\* The run_command calls of the main process that reported an unexpected
\* exit code of their command.
FailedRuns ==
    {k \in 1 .. Len(mainRan) :
        mainRan[k].exc.type = "UnexpectedReturnCodeError"}

C14_ElapsedLoggedOnEveryOutcome ==
    Building =>
        \A t \in TaskIds : Finished(t) => tasks[t].elapsed_logged

\* The Build Tasks a worker has begun, and the log files a call of
\* configure_logger for a runtime version can name.
BegunBy(w) == {t \in TaskIds : Started(t) /\ tasks[t].worker = w}
LogFilesOf(python_version) ==
    {LogFilePath(InvocationDir, t, cmd.blender, python_version) :
        t \in 0 .. MaxTime}

\* The root logger has the two handlers of one configure_logger call.
TwoSinks(hs) ==
    /\ Len(hs) = 2
    /\ hs[1].kind = "file" /\ hs[1].level = "DEBUG"
    /\ hs[2].kind = "stream" /\ hs[2].level = "WARNING"

C16_StagingRemoved ==
    cmd.name = "package" =>
        /\ (mainPc \in {"stage", "wheel"}) =>
               (staging # "" /\ tmpdirs = {staging})
        /\ (mainPc \in {"package", "idle"}) =>
               (staging = "" /\ tmpdirs = {})

\* The packaging tool exited with an unexpected code in the staging
\* directory of the second version; the command has ended.
C16_Witness ==
    /\ cmd.name = "package"
    /\ mainPc = "idle"
    /\ Len(attempts) = 2
    /\ Len(mainRan) = 2
    /\ mainExc.type = "UnexpectedReturnCodeError"
    /\ tmpdirs = {}

====
